---------------------------- MODULE Spec2Model ----------------------------
(***************************************************************************)
(* Model of jemila2/cdclient:                                              *)
(*   - backend/app.js: the Express middleware pipeline and route table     *)
(*     (one request is dispatched through the layers in registration       *)
(*     order), the rate limiter's store, the health endpoint, and the      *)
(*     process lifecycle (startup checks, listen, shutdown handlers);      *)
(*   - src/components/ProtectedRoute.jsx: the route guard's render.        *)
(* Three families of specifications share the variables: SpecHttp,         *)
(* SpecLimiter and SpecHealth drive the pipeline, SpecGuard the route      *)
(* guard, SpecProc the process lifecycle.                                  *)
(***************************************************************************)
EXTENDS Integers, Sequences, FiniteSets, TLC

VARIABLES
    env,         \* process.env.NODE_ENV and what exists on disk (fixed at startup)
    readyState,  \* mongoose.connection.readyState
    uptime,      \* process.uptime(), in ticks
    now,         \* wall clock, in ticks
    storeKind,   \* which MemoryStore the installed express-rate-limit ships
    store,       \* the limiter's store: hits and reset time per client key
    counted,     \* log: requests of each client that reached the limiter, per tick
    served,      \* number of requests received so far (bounds a run)
    conn,        \* the exchange on the wire: Idle, or the request and what was answered
    auth,        \* AuthContext value { user, loading }
    location,    \* useLocation()
    view,        \* what ProtectedRoute last rendered, and from which inputs
    phase,       \* where the process is in its life
    exitCode,    \* process exit status once exited
    procEnv,     \* presence of JWT_SECRET and MONGODB_URI
    listening,   \* the server has a listening handle and accepts connections
    conns,       \* open connections of the server
    closeCbs,    \* callbacks registered on the server's 'close' event
    received,    \* process events received so far, in order
    drained,     \* the server's 'close' event has been emitted
    db,          \* outcome of connectDB()
    listened     \* the server has been listening at some point

vars == <<env, readyState, uptime, now, storeKind, store, counted, served, conn,
          auth, location, view,
          phase, exitCode, procEnv, listening, conns, closeCbs, received, drained,
          db, listened>>

httpVars == <<env, readyState, uptime, now, storeKind, store, counted, served, conn>>
guardVars == <<auth, location, view>>
procVars == <<phase, exitCode, procEnv, listening, conns, closeCbs, received, drained,
              db, listened>>

----------------------------------------------------------------------------
(* Bounds of the model *)

MaxTime == 3            \* ticks the clock may advance
MaxHttpServed == 2      \* requests (or bursts) per run of SpecHttp
MaxLimServed == 3       \* requests (or bursts) per run of SpecLimiter
MaxHealthServed == 3    \* requests per run of SpecHealth
MaxConns == 2           \* simultaneous connections in SpecProc
MaxEvents == 3          \* process events delivered per run of SpecProc

----------------------------------------------------------------------------
(* JavaScript values *)

\* req.headers.origin when the request carries no Origin header (undefined)
NoOrigin == "<undefined>"

\* !v for the values an Origin header can take: undefined and '' are falsy
Falsy(v) == v = NoOrigin \/ v = ""

StartsWith(s, p) == Len(s) >= Len(p) /\ SubSeq(s, 1, Len(p)) = p

RECURSIVE SumOver(_, _)
SumOver(f, S) ==
    IF S = {} THEN 0
    ELSE LET t == CHOOSE t \in S : TRUE IN f[t] + SumOver(f, S \ {t})

InSeq(e, s) == \E i \in 1..Len(s) : s[i] = e

----------------------------------------------------------------------------
(* CORS *)

allowedOrigins ==
    { "https://cdclient-6.onrender.com",
      "https://cdclient.vercel.app",
      "https://jemila2.github.io",
      "http://localhost:5173",
      "http://localhost:3001" }

\* variant: the allow-list matched by prefix instead of by equality
OriginAllowedByPrefix(origin) ==
    Falsy(origin) \/ \E a \in allowedOrigins : StartsWith(origin, a)

\* corsOptions.origin: callback(null, true) iff !origin || allowedOrigins.includes(origin)
OriginAllowed(origin) == Falsy(origin) \/ origin \in allowedOrigins

optionsSuccessStatus == 200

----------------------------------------------------------------------------
(* Requests *)

Clients == {"ip1", "ip2"}

Origins == allowedOrigins \cup
           { NoOrigin, "", "https://evil.example", "https://cdclient.vercel.app/" }

Methods == {"GET", "HEAD", "POST", "OPTIONS"}

\* the prefixes the resource routers are mounted on
RouterMounts ==
    { "/api/auth", "/api/employee-requests", "/api/users", "/api/tasks",
      "/api/employees", "/api/payments", "/api/orders", "/api/admin",
      "/api/employee-orders", "/api/suppliers", "/api/purchase-orders",
      "/api/payroll", "/api/customers", "/api/invoices" }

Paths == { "/api/auth/login", "/api/health", "/api/data", "/api/unknown",
           "/api", "/dashboard", "/main.js" }

\* application/json bodies: none, a well-formed object, text JSON.parse rejects,
\* a well-formed primitive (strict mode rejects it), one over the 10mb limit
Bodies == {"none", "object", "malformed", "primitive", "oversize"}

\* what a resource router does with a request under its mount: answers it, finds
\* no route of its own (next()), or raises an error with or without a statusCode
NoOutcome == [kind |-> "next", statusCode |-> 0]
RouterOutcomes ==
    { [kind |-> "respond", statusCode |-> 0],
      NoOutcome,
      [kind |-> "throw", statusCode |-> 0],
      [kind |-> "throw", statusCode |-> 401] }

\* app.use(mount, ...): the path is the mount or lies below it
MountMatches(mount, p) == p = mount \/ StartsWith(p, mount \o "/")

UnderRouter(p) == \E m \in RouterMounts : MountMatches(m, p)

RouterPaths == { p \in Paths : UnderRouter(p) }

\* a request: who sends it, its Origin header, method, path and body, and, under a
\* router's mount, what the router does with it
RequestsOf(clients, origins, methods, paths, bodies) ==
    [client : clients, origin : origins, method : methods,
     path : paths \cap RouterPaths, body : bodies, outcome : RouterOutcomes]
    \cup
    [client : clients, origin : origins, method : methods,
     path : paths \ RouterPaths, body : bodies, outcome : {NoOutcome}]

----------------------------------------------------------------------------
(* Responses and errors *)

NoBody == [keys |-> {}, error |-> "", status |-> "", message |-> <<>>,
           stack |-> FALSE, database |-> "", uptime |-> -1]

NoRes == [status |-> 0, ctype |-> "none", body |-> NoBody, bodySent |-> FALSE]

NoErr == [name |-> "", statusCode |-> 0, status |-> "", message |-> <<>>,
          hasBody |-> FALSE, source |-> ""]

\* new Error(message): no statusCode, no status
PlainError(msg, src) ==
    [name |-> "Error", statusCode |-> 0, status |-> "", message |-> msg,
     hasBody |-> FALSE, source |-> src]

\* http-errors createError(code, ...): status and statusCode both set to the code
HttpError(name, code, codeText, msg, hasBody, src) ==
    [name |-> name, statusCode |-> code, status |-> codeText, message |-> msg,
     hasBody |-> hasBody, source |-> src]

Idle == [busy |-> FALSE]

\* the exchange as a request enters the pipeline
Fresh(r) ==
    [busy |-> TRUE, req |-> r, res |-> NoRes, sent |-> FALSE, next |-> "next",
     err |-> NoErr, caught |-> NoErr, ran |-> <<>>, writes |-> <<>>,
     destroyed |-> FALSE, hit |-> FALSE]

Ran(x, stage) == [x EXCEPT !.ran = Append(@, stage)]

\* res.status(s).send / .json / .end by layer `who`. Express omits the body of a
\* HEAD response; a write after the headers were sent throws ERR_HTTP_HEADERS_SENT.
Write(x, who, status, ctype, body) ==
    IF x.sent
    THEN [x EXCEPT !.writes = Append(@, who), !.next = "err",
                   !.err = PlainError(<<"Cannot set headers after they are sent to the client">>, who)]
    ELSE [x EXCEPT !.res = [status |-> status, ctype |-> ctype, body |-> body,
                            bodySent |-> x.req.method # "HEAD" /\ ctype # "none"],
                   !.sent = TRUE, !.writes = Append(@, who), !.next = "stop"]

\* next(err)
Raise(x, e) == [x EXCEPT !.next = "err", !.err = e]

----------------------------------------------------------------------------
(* Stage 1: app.use(cors(corsOptions)) *)

\* The cors middleware asks corsOptions.origin first: an error goes to next(err).
\* An allowed OPTIONS request is a preflight and, with preflightContinue false,
\* is answered here with optionsSuccessStatus and an empty body.
Cors(x) ==
    IF x.next # "next" THEN x
    ELSE LET y == Ran(x, "cors") IN
         IF ~OriginAllowed(y.req.origin)
         THEN Raise(y, PlainError(<<"Not allowed by CORS">>, "cors"))
         ELSE IF y.req.method = "OPTIONS"
              THEN Write(y, "cors", optionsSuccessStatus, "none", NoBody)
              ELSE y

----------------------------------------------------------------------------
(* Stage 2: app.use('/api', limiter) *)

max == 100

\* windowMs = 15 * 60 * 1000, in ticks of five minutes
windowTicks == 3

RateLimitMessage == <<"Too many requests from this IP, please try again later">>

StoreKinds == {"perClient", "shared"}

EmptyStore ==
    [hits |-> [c \in Clients |-> 0], resetTime |-> [c \in Clients |-> windowTicks]]

\* store.increment(key). The per-client store opens a window at a key's first hit
\* and starts a new one once resetTime has passed; the shared store counts until
\* its interval timer resets every key (ResetAll, on the clock).
Increment(st, c, t) ==
    IF storeKind = "perClient" /\ (st.hits[c] = 0 \/ st.resetTime[c] <= t)
    THEN [hits |-> [st.hits EXCEPT ![c] = 1],
          resetTime |-> [st.resetTime EXCEPT ![c] = t + windowTicks]]
    ELSE [st EXCEPT !.hits[c] = @ + 1]

ResetAll(st, t) ==
    [hits |-> [c \in Clients |-> 0], resetTime |-> [c \in Clients |-> t + windowTicks]]

\* variant: the quota reached counts as exceeded
OverLimitAtMax(current) == current >= max

\* the limiter's decision on the incremented count
OverLimit(current) == current > max

Limiter(x, st) ==
    IF x.next # "next" \/ ~MountMatches("/api", x.req.path) THEN x
    ELSE LET y == [Ran(x, "limiter") EXCEPT !.hit = TRUE]
             current == Increment(st, y.req.client, now).hits[y.req.client]
         IN IF OverLimit(current)
            THEN Write(y, "limiter", 429, "text",
                       [NoBody EXCEPT !.keys = {"text"}, !.message = RateLimitMessage])
            ELSE y

----------------------------------------------------------------------------
(* Stage 3: app.use(express.json({ limit, verify })) *)

\* JSON.parse(buf.toString()) in the verify hook throws on text that is not JSON
VerifyThrows(body) == body = "malformed"

\* The parser reads the body (413 over the limit), runs the verify hook, then
\* parses strictly (only objects and arrays). The hook answers 400 itself and
\* throws; body-parser passes what it threw to next() as a 403 error.
JsonParser(x) ==
    IF x.next # "next" \/ x.req.body = "none" THEN x
    ELSE LET y == Ran(x, "json") IN
         IF y.req.body = "oversize"
         THEN Raise(y, HttpError("PayloadTooLargeError", 413, "413",
                                 <<"request entity too large">>, FALSE, "json"))
         ELSE IF VerifyThrows(y.req.body)
         THEN LET z == Write(Ran(y, "verify"), "verify", 400, "json",
                             [NoBody EXCEPT !.keys = {"error"}, !.error = "Invalid JSON"])
              IN Raise(z, HttpError("Error", 403, "403", <<"Invalid JSON">>, TRUE, "verify"))
         ELSE IF y.req.body = "primitive"
         THEN Raise(y, HttpError("SyntaxError", 400, "400",
                                 <<"Unexpected token in JSON">>, TRUE, "json"))
         ELSE y

----------------------------------------------------------------------------
(* Stage 4: app.use(express.static(path.join(__dirname, 'client/build'))) *)

IsGet(x) == x.req.method \in {"GET", "HEAD"}

FileBody(name) == [NoBody EXCEPT !.keys = {"file"}, !.message = <<name>>]

Static106(x) ==
    IF x.next # "next" \/ ~IsGet(x) THEN x
    ELSE IF env.asset /\ x.req.path = "/main.js"
         THEN Write(Ran(x, "static"), "static", 200, "file", FileBody("main.js"))
         ELSE x

----------------------------------------------------------------------------
(* Stage 5: the resource routers, app.use('/api/<resource>', router) *)

Routers(x) ==
    IF x.next # "next" \/ ~UnderRouter(x.req.path) THEN x
    ELSE LET y == Ran(x, "router") IN
         CASE y.req.outcome.kind = "respond" ->
                Write(y, "router", 200, "json", [NoBody EXCEPT !.keys = {"data"}])
           [] y.req.outcome.kind = "throw" ->
                Raise(y, [PlainError(<<"handler failed">>, "router")
                            EXCEPT !.statusCode = y.req.outcome.statusCode])
           [] OTHER -> y

----------------------------------------------------------------------------
(* Stage 6: app.get('/api/health') and app.get('/api/data') *)

\* variant: a status map without the entry for 3
StatusLabelNoDisconnecting(dbStatus) ==
    CASE dbStatus = 0 -> "Disconnected"
      [] dbStatus = 1 -> "Connected"
      [] dbStatus = 2 -> "Connecting"
      [] OTHER -> "Unknown"

\* statusMap[dbStatus] || 'Unknown'
StatusLabel(dbStatus) ==
    CASE dbStatus = 0 -> "Disconnected"
      [] dbStatus = 1 -> "Connected"
      [] dbStatus = 2 -> "Connecting"
      [] dbStatus = 3 -> "Disconnecting"
      [] OTHER -> "Unknown"

Health(x) ==
    IF x.next # "next" \/ ~IsGet(x) \/ x.req.path # "/api/health" THEN x
    ELSE Write(Ran(x, "health"), "health", 200, "json",
               [NoBody EXCEPT !.keys = {"status", "database", "timestamp", "uptime"},
                              !.status = "OK",
                              !.database = StatusLabel(readyState),
                              !.uptime = uptime])

Data(x) ==
    IF x.next # "next" \/ ~IsGet(x) \/ x.req.path # "/api/data" THEN x
    ELSE Write(Ran(x, "data"), "data", 200, "json",
               [NoBody EXCEPT !.keys = {"message"}, !.message = <<"API response">>])

----------------------------------------------------------------------------
(* Stage 7: the catch-all, app.get('*'), registered first *)

IndexFile == "cdclient/build/index.html"

\* res.sendFile(file) without a callback: the file is streamed with status 200, or
\* the ENOENT error (a 404 http-error) goes to next(err)
SendFile(x, who) ==
    LET y == Ran(x, "sendFile") IN
    IF env.build
    THEN Write(y, who, 200, "file", FileBody(IndexFile))
    ELSE Raise(y, HttpError("NotFoundError", 404, "404",
                            <<"ENOENT: no such file or directory, stat '", IndexFile, "'">>,
                            FALSE, "sendFile"))

NotFoundBody(url, suffix) ==
    [NoBody EXCEPT !.keys = {"status", "message"}, !.status = "fail",
                   !.message = <<"API endpoint ", url, suffix>>]

\* variant: the catch-all without its test of the /api/ prefix
CatchAllNoApiTest(x) ==
    IF x.next # "next" \/ ~IsGet(x) THEN x
    ELSE SendFile(Ran(x, "catchAll"), "catchAll")

CatchAll164(x) ==
    IF x.next # "next" \/ ~IsGet(x) THEN x
    ELSE LET y == Ran(x, "catchAll") IN
         IF StartsWith(y.req.path, "/api/")
         THEN Write(y, "catchAll", 404, "json", NotFoundBody(y.req.path, " not found"))
         ELSE SendFile(y, "catchAll")

----------------------------------------------------------------------------
(* Stage 8: if (fs.existsSync(buildPath)) { express.static; app.get('*') } *)

\* registered only when the build directory exists; the static layer has no file
\* for the paths of the model other than the index document
CatchAll183(x) ==
    IF x.next # "next" \/ ~IsGet(x) \/ ~env.build THEN x
    ELSE SendFile(Ran(x, "catchAll2"), "catchAll2")

----------------------------------------------------------------------------
(* Stage 9: app.all('/api/*') *)

ApiAll(x) ==
    IF x.next # "next" \/ ~StartsWith(x.req.path, "/api/") THEN x
    ELSE Write(Ran(x, "apiAll"), "apiAll", 404, "json",
               NotFoundBody(x.req.path, " not found!"))

----------------------------------------------------------------------------
(* Stage 10: the error handling middleware, app.use((err, req, res, next) => ...) *)

NodeEnvs == {"development", "production", "test", ""}

\* variant: the stack in every mode but production
IncludeStackUnlessProduction == env.NODE_ENV # "production"

\* process.env.NODE_ENV === 'development'
IncludeStack == env.NODE_ENV = "development"

\* err.statusCode || 500
ErrorStatus(e) == IF e.statusCode = 0 THEN 500 ELSE e.statusCode

\* err.status || 'error'
ErrorStatusField(e) == IF e.status = "" THEN "error" ELSE e.status

ErrorMw(x) ==
    IF x.next # "err" THEN x
    ELSE LET e == x.err
             y == [Ran(x, "errorMw") EXCEPT !.next = "stop", !.caught = e]
         IN IF e.name = "SyntaxError" /\ e.status = "400" /\ e.hasBody
            THEN Write(y, "errorMw", 400, "json",
                       [NoBody EXCEPT !.keys = {"error"}, !.error = "Invalid JSON body"])
            ELSE Write(y, "errorMw", ErrorStatus(e), "json",
                       [NoBody EXCEPT
                          !.keys = {"status", "message"} \cup
                                   (IF IncludeStack THEN {"stack"} ELSE {}),
                          !.status = ErrorStatusField(e),
                          !.message = e.message,
                          !.stack = IncludeStack])

----------------------------------------------------------------------------
(* The end of the stack: Express's final handler *)

\* no layer answered: 404 page; an error nobody handled: the error page, or, when
\* the headers are already sent, the socket is destroyed
FinalHandler(x) ==
    CASE x.next = "next" ->
           Write(Ran(x, "final"), "final", 404, "html",
                 [NoBody EXCEPT !.keys = {"text"},
                                !.message = <<"Cannot ", x.req.method, " ", x.req.path>>])
      [] x.next = "err" ->
           IF x.sent
           THEN [Ran(x, "final") EXCEPT !.next = "stop", !.destroyed = TRUE]
           ELSE Write(Ran(x, "final"), "final", ErrorStatus(x.err), "html",
                      [NoBody EXCEPT !.keys = {"text"}, !.message = x.err.message])
      [] OTHER -> x

\* one request through the stack, in registration order
Handle(r, st) ==
    LET a == Limiter(Cors(Fresh(r)), st)
        b == Routers(Static106(JsonParser(a)))
        c == CatchAll183(CatchAll164(Data(Health(b))))
    IN FinalHandler(ErrorMw(ApiAll(c)))

----------------------------------------------------------------------------
(* The pipeline's actions *)

Log(f, c, t, n) == [f EXCEPT ![c][t] = @ + n]

NoLog == [c \in Clients |-> [t \in 0..MaxTime |-> 0]]

\* the store once request r has gone through the stack: only the limiter writes it
StoreAfter(st, r) ==
    IF Limiter(Cors(Fresh(r)), st).hit THEN Increment(st, r.client, now) ELSE st

\* the store once request r has gone through the stack n times in a row
RECURSIVE StoreAfterN(_, _, _)
StoreAfterN(st, r, n) ==
    IF n = 0 \/ st.hits[r.client] < 0 THEN st
    ELSE IF n = 1 THEN StoreAfter(st, r)
    ELSE StoreAfterN(StoreAfterN(st, r, n \div 2), r, n - (n \div 2))

\* a request arrives on an idle connection and is answered
Receive(r) ==
    LET x == Handle(r, store) IN
    /\ ~conn.busy
    /\ conn' = x
    /\ store' = StoreAfter(store, r)
    /\ counted' = IF x.hit THEN Log(counted, r.client, now, 1) ELSE counted
    /\ served' = served + 1
    /\ UNCHANGED <<env, readyState, uptime, now, storeKind, guardVars, procVars>>

\* a client sends the same request BurstSize times in a row within one tick; the
\* last exchange stays on the wire
BurstSize == max

Burst(r) ==
    LET before == StoreAfterN(store, r, BurstSize - 1)
        x == Handle(r, before)
    IN /\ ~conn.busy
       /\ conn' = x
       /\ store' = StoreAfter(before, r)
       /\ counted' = IF x.hit THEN Log(counted, r.client, now, BurstSize) ELSE counted
       /\ served' = served + 1
       /\ UNCHANGED <<env, readyState, uptime, now, storeKind, guardVars, procVars>>

\* the response has gone out and the connection is free again
Close ==
    /\ conn.busy
    /\ conn' = Idle
    /\ UNCHANGED <<env, readyState, uptime, now, storeKind, store, counted, served,
                   guardVars, procVars>>

\* five minutes pass; the shared store's interval timer fires every windowMs
Tick ==
    /\ ~conn.busy
    /\ now < MaxTime
    /\ now' = now + 1
    /\ uptime' = uptime + 1
    /\ store' = IF storeKind = "shared" /\ (now + 1) % windowTicks = 0
                THEN ResetAll(store, now + 1) ELSE store
    /\ UNCHANGED <<env, readyState, storeKind, counted, served, conn,
                   guardVars, procVars>>

\* mongoose moves the connection between its states
ReadyStates == 0..3

DbTransitions == { <<1, 0>>, <<0, 2>>, <<2, 1>>, <<2, 0>>, <<1, 3>>, <<3, 0>> }

DbChange ==
    /\ ~conn.busy
    /\ \E s \in ReadyStates :
         /\ <<readyState, s>> \in DbTransitions
         /\ readyState' = s
    /\ UNCHANGED <<env, uptime, now, storeKind, store, counted, served, conn,
                   guardVars, procVars>>

----------------------------------------------------------------------------
(* ProtectedRoute *)

Null == "<null>"

Users == {Null, "alice", "bob"}

\* the truthiness of `user`: null and undefined are falsy, a user object is truthy
Truthy(u) == u \notin {Null, NoOrigin, ""}

AuthStates == [user : Users, loading : BOOLEAN]

Locations == {"/dashboard", "/orders", "/payroll", "/login"}

LoginPath == "/login"

Element(kind, to, from, replace) ==
    [kind |-> kind, to |-> to, from |-> from, replace |-> replace]

\* variant: the redirect without the location it came from
ProtectedRouteNoState(a, loc) ==
    IF a.loading
    THEN Element("placeholder", "", "", FALSE)
    ELSE IF Truthy(a.user)
         THEN Element("children", "", "", FALSE)
         ELSE Element("navigate", LoginPath, "", TRUE)

\* const ProtectedRoute = ({ children }) => ...
ProtectedRoute(a, loc) ==
    IF a.loading
    THEN Element("placeholder", "", "", FALSE)
    ELSE IF Truthy(a.user)
         THEN Element("children", "", "", FALSE)
         ELSE Element("navigate", LoginPath, loc, TRUE)

NoView == [rendered |-> FALSE]

\* React renders the guard for the current context value and location
Render ==
    /\ location # LoginPath
    /\ view' = [rendered |-> TRUE, auth |-> auth, location |-> location,
                out |-> ProtectedRoute(auth, location)]
    /\ UNCHANGED <<auth, location, httpVars, procVars>>

\* the auth context changes: the session is restored, the user logs in or out
AuthChange ==
    /\ \E a \in AuthStates : a # auth /\ auth' = a
    /\ UNCHANGED <<location, view, httpVars, procVars>>

\* the user navigates to another view
Navigate ==
    /\ \E l \in Locations : l # location /\ location' = l
    /\ UNCHANGED <<auth, view, httpVars, procVars>>

\* a rendered <Navigate> element replaces the location
FollowRedirect ==
    /\ view.rendered
    /\ view.out.kind = "navigate"
    /\ location = view.location
    /\ location' = view.out.to
    /\ UNCHANGED <<auth, view, httpVars, procVars>>

----------------------------------------------------------------------------
(* The process: startup *)

\* process.env[name]: undefined, the empty string, or a value
EnvValues == {NoOrigin, "", "set"}

\* variant: only the signing secret is required
requiredEnvVarsSecretOnly == {"JWT_SECRET"}

requiredEnvVars == {"JWT_SECRET", "MONGODB_URI"}

\* requiredEnvVars.forEach(env => { if (!process.env[env]) process.exit(1) })
MissingEnv(pe) == \E v \in requiredEnvVars : Falsy(pe[v])

EnvNames == {"JWT_SECRET", "MONGODB_URI"}

\* both variables carry a value
EnvPresent(pe) == \A v \in EnvNames : pe[v] = "set"

\* the module is loaded: the required variables are checked, then the app is built
CheckEnv ==
    /\ phase = "init"
    /\ IF MissingEnv(procEnv)
       THEN phase' = "exited" /\ exitCode' = 1
       ELSE phase' = "configured" /\ UNCHANGED exitCode
    /\ UNCHANGED <<procEnv, listening, conns, closeCbs, received, drained, db, listened,
                   httpVars, guardVars>>

\* startServer(): await connectDB()
StartServer ==
    /\ phase = "configured"
    /\ phase' = "connecting"
    /\ db' = "pending"
    /\ UNCHANGED <<exitCode, procEnv, listening, conns, closeCbs, received, drained,
                   listened, httpVars, guardVars>>

\* connectDB() resolves or rejects
ConnectOutcomes == {"connected", "failed"}

\* what startServer does once connectDB() has settled: app.listen and the process
\* handlers, or the catch block's process.exit(1)
AfterConnect(outcome) ==
    IF outcome = "connected"
    THEN /\ phase' = "started"
         /\ listening' = TRUE
         /\ listened' = TRUE
         /\ UNCHANGED exitCode
    ELSE /\ phase' = "exited"
         /\ exitCode' = 1
         /\ UNCHANGED <<listening, listened>>

ConnectSettles ==
    /\ phase = "connecting"
    /\ \E o \in ConnectOutcomes :
         /\ db' = o
         /\ AfterConnect(o)
    /\ UNCHANGED <<procEnv, conns, closeCbs, received, drained, httpVars, guardVars>>

----------------------------------------------------------------------------
(* The process: connections and shutdown *)

ProcessEvents == {"unhandledRejection", "uncaughtException", "SIGTERM"}

\* the callback each handler passes to server.close(): process.exit(1), or the
\* SIGTERM handler's console.log
CloseCallback(e) == IF e = "SIGTERM" THEN "log" ELSE "exit1"

\* the server accepts a connection
Accept ==
    /\ phase = "started"
    /\ listening
    /\ conns < MaxConns
    /\ conns' = conns + 1
    /\ UNCHANGED <<phase, exitCode, procEnv, listening, closeCbs, received, drained,
                   db, listened, httpVars, guardVars>>

\* an open connection finishes its request and ends
ConnEnd ==
    /\ phase = "started"
    /\ conns > 0
    /\ conns' = conns - 1
    /\ UNCHANGED <<phase, exitCode, procEnv, listening, closeCbs, received, drained,
                   db, listened, httpVars, guardVars>>

\* process.on(e, ...): server.close(callback) stops the listening and registers
\* the callback on the server's 'close' event
ProcessEvent(e) ==
    /\ phase = "started"
    /\ Len(received) < MaxEvents
    /\ received' = Append(received, e)
    /\ listening' = FALSE
    /\ closeCbs' = Append(closeCbs, CloseCallback(e))
    /\ UNCHANGED <<phase, exitCode, procEnv, conns, drained, db, listened,
                   httpVars, guardVars>>

\* Once the server listens no more and its last connection has ended, 'close' is
\* emitted and the registered callbacks run in order: the first process.exit(1)
\* ends the process. Nothing else ends it: the SIGTERM handler replaces the
\* default action of the signal, and the open database connection keeps the
\* event loop alive.
EmitClose ==
    /\ phase = "started"
    /\ ~listening
    /\ conns = 0
    /\ closeCbs # <<>>
    /\ drained' = TRUE
    /\ closeCbs' = <<>>
    /\ IF InSeq("exit1", closeCbs)
       THEN phase' = "exited" /\ exitCode' = 1
       ELSE UNCHANGED <<phase, exitCode>>
    /\ UNCHANGED <<procEnv, listening, conns, received, db, listened, httpVars, guardVars>>

----------------------------------------------------------------------------
(* Initial states *)

HttpParked ==
    /\ env = [NODE_ENV |-> "production", build |-> FALSE, asset |-> FALSE]
    /\ readyState = 1
    /\ uptime = 0
    /\ now = 0
    /\ storeKind = "perClient"
    /\ store = EmptyStore
    /\ counted = NoLog
    /\ served = 0
    /\ conn = Idle

GuardParked ==
    /\ auth = [user |-> Null, loading |-> TRUE]
    /\ location = "/dashboard"
    /\ view = NoView

\* a process that has started and listens
ProcParked ==
    /\ phase = "started"
    /\ exitCode = -1
    /\ procEnv = [v \in EnvNames |-> "set"]
    /\ listening = TRUE
    /\ conns = 0
    /\ closeCbs = <<>>
    /\ received = <<>>
    /\ drained = FALSE
    /\ db = "connected"
    /\ listened = TRUE

Envs == [NODE_ENV : NodeEnvs, build : BOOLEAN, asset : BOOLEAN]

\* the server listens (the database is connected), nothing was received yet
InitHttp ==
    /\ env \in Envs
    /\ readyState = 1
    /\ uptime = 0
    /\ now = 0
    /\ storeKind = "perClient"
    /\ store = EmptyStore
    /\ counted = NoLog
    /\ served = 0
    /\ conn = Idle
    /\ GuardParked
    /\ ProcParked

InitLimiter ==
    /\ env = [NODE_ENV |-> "production", build |-> FALSE, asset |-> FALSE]
    /\ readyState = 1
    /\ uptime = 0
    /\ now = 0
    /\ storeKind \in StoreKinds
    /\ store = EmptyStore
    /\ counted = NoLog
    /\ served = 0
    /\ conn = Idle
    /\ GuardParked
    /\ ProcParked

InitHealth ==
    /\ HttpParked
    /\ GuardParked
    /\ ProcParked

\* the auth context starts out loading, with no user
InitGuard ==
    /\ auth = [user |-> Null, loading |-> TRUE]
    /\ location \in Locations \ {LoginPath}
    /\ view = NoView
    /\ HttpParked
    /\ ProcParked

\* the process starts with any combination of the two variables
InitProc ==
    /\ phase = "init"
    /\ exitCode = -1
    /\ procEnv \in [EnvNames -> EnvValues]
    /\ listening = FALSE
    /\ conns = 0
    /\ closeCbs = <<>>
    /\ received = <<>>
    /\ drained = FALSE
    /\ db = "none"
    /\ listened = FALSE
    /\ HttpParked
    /\ GuardParked

----------------------------------------------------------------------------
(* Specifications *)

\* SpecHttp: every kind of request of one client, under every environment
HttpReqs == RequestsOf({"ip1"}, Origins, Methods, Paths, Bodies)

BurstReq(c) ==
    [client |-> c, origin |-> NoOrigin, method |-> "GET", path |-> "/api/data",
     body |-> "none", outcome |-> NoOutcome]

HttpReceive == served < MaxHttpServed /\ \E r \in HttpReqs : Receive(r)

HttpBurst == served < MaxHttpServed /\ Burst(BurstReq("ip1"))

NextHttp == HttpReceive \/ HttpBurst \/ Close

SpecHttp == InitHttp /\ [][NextHttp]_vars

\* SpecLimiter: two clients, the clock, requests that are counted and that are not
LimReqs ==
    RequestsOf(Clients, {NoOrigin, "https://evil.example"}, {"GET"},
               {"/api/data", "/dashboard"}, {"none"})
    \cup RequestsOf(Clients, {NoOrigin}, {"OPTIONS"}, {"/api/data"}, {"none"})

LimReceive == served < MaxLimServed /\ \E r \in LimReqs : Receive(r)

LimBurst == served < MaxLimServed /\ \E c \in Clients : Burst(BurstReq(c))

NextLimiter == LimReceive \/ LimBurst \/ Close \/ Tick

SpecLimiter == InitLimiter /\ [][NextLimiter]_vars

\* SpecHealth: the health endpoint while the database connection and the clock move
HealthReqs ==
    RequestsOf({"ip1"}, {NoOrigin, "https://evil.example"}, {"GET", "HEAD", "POST"},
               {"/api/health", "/api/data"}, {"none"})

HealthReceive == served < MaxHealthServed /\ \E r \in HealthReqs : Receive(r)

NextHealth == HealthReceive \/ Close \/ Tick \/ DbChange

SpecHealth == InitHealth /\ [][NextHealth]_vars

\* SpecGuard: the route guard
NextGuard == Render \/ AuthChange \/ Navigate \/ FollowRedirect

SpecGuard == InitGuard /\ [][NextGuard]_vars

\* SpecProc: the process from its start to its end
AnyProcessEvent == \E e \in ProcessEvents : ProcessEvent(e)

NextProc ==
    \/ CheckEnv
    \/ StartServer
    \/ ConnectSettles
    \/ Accept
    \/ ConnEnd
    \/ AnyProcessEvent
    \/ EmitClose

SpecProc == InitProc /\ [][NextProc]_vars

\* what the process does by itself, with no new event and no new connection
ProcessStep == CheckEnv \/ StartServer \/ ConnectSettles \/ ConnEnd \/ EmitClose

----------------------------------------------------------------------------
(* What an exchange shows *)

\* the CORS layer's error reached the error middleware
CorsRejected(x) == x.caught.message = <<"Not allowed by CORS">>

\* the limiter answered
RateLimited(x) == InSeq("limiter", x.writes)

RouteStages == {"static", "router", "health", "data", "catchAll", "catchAll2",
                "sendFile", "apiAll"}

\* some route handler or static layer ran
RouteRan(x) == \E i \in 1..Len(x.ran) : x.ran[i] \in RouteStages

\* the ticks of the 15 minutes that end at the current tick
RollingTicks == { t \in 0..MaxTime : t <= now /\ t > now - windowTicks }

\* the ticks so far of the store's window of client c
WindowTicksOf(c) ==
    { t \in 0..MaxTime :
        /\ store.resetTime[c] - windowTicks <= t
        /\ t < store.resetTime[c]
        /\ t <= now }

\* a path under /api/ that no resource router, /api/health or /api/data matches
UnmatchedApi(r) ==
    /\ StartsWith(r.path, "/api/")
    /\ r.path \notin {"/api/health", "/api/data"}
    /\ UnderRouter(r.path) => r.outcome.kind = "next"

\* the request gets past the CORS layer, the limiter and the body parser
PassesMiddleware(x) ==
    /\ x.req.origin \in allowedOrigins \cup {NoOrigin, ""}
    /\ x.req.method # "OPTIONS"
    /\ store.hits[x.req.client] <= max
    /\ x.req.body \in {"none", "object"}

----------------------------------------------------------------------------
(* C1: the CORS origin check *)

\* C1 as stated: a request is accepted iff its Origin header is absent or one of
\* the five allowed origins; a rejected one gets the error 'Not allowed by CORS'
\* and no limiter, body parser or route handler runs for it.
C1_AcceptedIffAbsentOrListed ==
    conn.busy =>
        /\ ~CorsRejected(conn) <=>
              (conn.req.origin = NoOrigin \/ conn.req.origin \in allowedOrigins)
        /\ CorsRejected(conn) => conn.ran = <<"cors", "errorMw">>

\* C1 amended: a request is accepted iff its Origin header is absent, empty, or
\* one of the five allowed origins; every other request gets the error
\* 'Not allowed by CORS' (status 500 from the error middleware), is not counted
\* by the limiter, and no limiter, body parser or route handler runs for it.
C1_AcceptedIffFalsyOrListed ==
    conn.busy =>
        /\ ~CorsRejected(conn) <=>
              (conn.req.origin \in {NoOrigin, ""} \/ conn.req.origin \in allowedOrigins)
        /\ CorsRejected(conn) =>
              /\ conn.ran = <<"cors", "errorMw">>
              /\ conn.writes = <<"errorMw">>
              /\ conn.res.status = 500
              /\ conn.res.body.message = <<"Not allowed by CORS">>
              /\ ~conn.hit

C1_Witness ==
    /\ conn.busy
    /\ conn.req.origin = "https://evil.example"
    /\ conn.req.path = "/api/data"
    /\ conn.req.body = "malformed"
    /\ CorsRejected(conn)
    /\ conn.res.status = 500

----------------------------------------------------------------------------
(* C2: the rate limiter *)

\* C2 as stated: once more than 100 requests of a client have reached the limiter
\* within the last 15 minutes, the next request of that client that reaches the
\* limiter is rejected by it.
C2_RollingWindow ==
    (conn.busy /\ conn.hit) =>
        (SumOver(counted[conn.req.client], RollingTicks) - 1 > max => RateLimited(conn))

\* C2 amended: the limiter counts the requests to the /api mount that get past the
\* CORS layer (allowed origin, not an OPTIONS preflight), per client and per fixed
\* window of 15 minutes of the store; a counted request is rejected, with status
\* 429 and the uniform message and before any later layer, iff it is the 101st or
\* a later one of its client in the store's current window; each client's count
\* is the number of its own counted requests in its window; requests that are not
\* counted are never rejected by the limiter.
C2_FixedWindow ==
    /\ \A c \in Clients : store.hits[c] = SumOver(counted[c], WindowTicksOf(c))
    /\ conn.busy =>
          /\ conn.hit <=>
                /\ MountMatches("/api", conn.req.path)
                /\ conn.req.origin \in allowedOrigins \cup {NoOrigin, ""}
                /\ conn.req.method # "OPTIONS"
          /\ RateLimited(conn) <=>
                (conn.hit /\ SumOver(counted[conn.req.client],
                                     WindowTicksOf(conn.req.client)) > max)
          /\ RateLimited(conn) =>
                /\ conn.res.status = 429
                /\ conn.res.body.message = RateLimitMessage
                /\ conn.ran = <<"cors", "limiter">>

C2_Witness ==
    /\ conn.busy
    /\ RateLimited(conn)
    /\ now >= windowTicks
    /\ \E d \in Clients \ {conn.req.client} : store.hits[d] > 0 /\ store.hits[d] <= max

----------------------------------------------------------------------------
(* C3: malformed JSON bodies *)

\* C3: a request whose JSON body is malformed, once the body parser has it, gets
\* one response, 400 with the fixed message, no route handler runs, and the verify
\* hook and the error middleware do not both write a response.
C3_OneResponse ==
    (conn.busy /\ conn.req.body = "malformed" /\ InSeq("json", conn.ran)) =>
        /\ conn.res.status = 400
        /\ conn.res.body.error = "Invalid JSON"
        /\ ~RouteRan(conn)
        /\ ~(InSeq("verify", conn.writes) /\ InSeq("errorMw", conn.writes))

----------------------------------------------------------------------------
(* C4: unmatched paths under /api/ *)

\* C4 as stated, for requests with an allowed origin and a well-formed body: a
\* request of any method to an unmatched path under /api/ gets status 404 and the
\* envelope {status: "fail", message}, the message naming the path.
C4_AnyMethod404 ==
    (conn.busy /\ UnmatchedApi(conn.req)
        /\ conn.req.origin \in allowedOrigins \cup {NoOrigin}
        /\ conn.req.body \in {"none", "object"}) =>
        /\ conn.res.status = 404
        /\ conn.res.ctype = "json"
        /\ conn.res.body.keys = {"status", "message"}
        /\ conn.res.body.status = "fail"
        /\ conn.res.body.message[2] = conn.req.path

\* C4 amended: a request to an unmatched path under /api/ that gets past the CORS
\* layer (allowed origin, not OPTIONS), the limiter and the body parser gets status
\* 404 and the envelope {status: "fail", message}, the message naming the path:
\* 'API endpoint <path> not found' from the catch-all for GET and HEAD,
\* 'API endpoint <path> not found!' from app.all for the other methods; a HEAD
\* response carries no body.
C4_Unmatched404 ==
    (conn.busy /\ UnmatchedApi(conn.req) /\ PassesMiddleware(conn)) =>
        /\ conn.res.status = 404
        /\ conn.res.ctype = "json"
        /\ conn.res.body.keys = {"status", "message"}
        /\ conn.res.body.status = "fail"
        /\ conn.res.body.message =
              <<"API endpoint ", conn.req.path,
                IF conn.req.method \in {"GET", "HEAD"} THEN " not found" ELSE " not found!">>
        /\ conn.res.bodySent <=> conn.req.method # "HEAD"
        /\ conn.writes = <<IF conn.req.method \in {"GET", "HEAD"}
                           THEN "catchAll" ELSE "apiAll">>

C4_Witness ==
    /\ conn.busy
    /\ conn.req.method = "POST"
    /\ conn.req.path = "/api/unknown"
    /\ conn.req.body = "object"
    /\ conn.res.status = 404
    /\ InSeq("apiAll", conn.ran)

----------------------------------------------------------------------------
(* C5: unmatched paths outside /api/ *)

\* C5: a GET of an unmatched path outside /api/ that reaches the routes is answered
\* with the index document and status 200 when the build directory exists; when it
\* does not, no attempt is made to send the index document.
C5_ApiOnlyMode ==
    (conn.busy /\ conn.req.method = "GET" /\ InSeq("catchAll", conn.ran)
        /\ ~MountMatches("/api", conn.req.path)) =>
        IF env.build
        THEN conn.res.status = 200 /\ conn.res.body = FileBody(IndexFile)
        ELSE ~InSeq("sendFile", conn.ran)

----------------------------------------------------------------------------
(* C6: the route guard *)

\* C6: every render of ProtectedRoute gives exactly one of three outcomes: the
\* placeholder whenever loading is true; with loading false and user null, a
\* redirect to /login that replaces the location and carries the current location
\* as state.from; with loading false and a user, the children.
C6_GuardOutcome ==
    view.rendered =>
        /\ view.out.kind \in {"placeholder", "navigate", "children"}
        /\ view.auth.loading => view.out.kind = "placeholder"
        /\ (~view.auth.loading /\ view.auth.user = Null) =>
              /\ view.out.kind = "navigate"
              /\ view.out.to = "/login"
              /\ view.out.from = view.location
        /\ (~view.auth.loading /\ view.auth.user # Null) => view.out.kind = "children"

C6_Witness ==
    /\ view.rendered
    /\ ~view.auth.loading
    /\ view.auth.user = Null
    /\ view.location = "/orders"
    /\ view.out.kind = "navigate"
    /\ location = LoginPath

----------------------------------------------------------------------------
(* C7: startup *)

\* C7: the server has listened only if both JWT_SECRET and MONGODB_URI carry a
\* value and connectDB() succeeded; once the check of the variables has run with
\* one of them missing, and once connectDB() has failed, the process has exited
\* with status 1 and has never listened.
C7_ListenAfterChecks ==
    /\ (listened \/ listening) => (EnvPresent(procEnv) /\ db = "connected")
    /\ (phase # "init" /\ ~EnvPresent(procEnv)) =>
          (phase = "exited" /\ exitCode = 1 /\ ~listened /\ db = "none")
    /\ db = "failed" => (phase = "exited" /\ exitCode = 1 /\ ~listened)

C7_Witness ==
    /\ phase = "started"
    /\ listening
    /\ conns > 0
    /\ db = "connected"

----------------------------------------------------------------------------
(* C8: shutdown *)

\* C8: after each of unhandledRejection, uncaughtException and SIGTERM the process
\* stops listening, lets its connections end and then exits: once such an event
\* has been received and the process has nothing left to do by itself, it has
\* exited, and after unhandledRejection or uncaughtException with status 1 and
\* only after the server's 'close' event.
C8_ShutdownExits ==
    (received # <<>> /\ ~ENABLED ProcessStep) =>
        /\ phase = "exited"
        /\ drained
        /\ (InSeq("unhandledRejection", received) \/ InSeq("uncaughtException", received))
              => exitCode = 1

----------------------------------------------------------------------------
(* C9: the error middleware *)

\* an error raised by a route handler was given to the error middleware
HandlerErrorCaught(x) ==
    /\ InSeq("errorMw", x.ran)
    /\ x.caught.source \in {"router", "sendFile"}

\* C9 as stated: an error raised by a route handler is answered by the error
\* middleware with its statusCode, or 500, and a JSON body that carries the stack
\* iff NODE_ENV is not production.
C9_StackUnlessProduction ==
    (conn.busy /\ HandlerErrorCaught(conn)) =>
        /\ conn.res.status = IF conn.caught.statusCode = 0 THEN 500
                             ELSE conn.caught.statusCode
        /\ conn.res.ctype = "json"
        /\ ("stack" \in conn.res.body.keys) <=> (env.NODE_ENV # "production")

\* C9 amended: every error raised by a route handler goes to the error middleware,
\* which alone answers, with a JSON body and the error's statusCode, or 500 when
\* it has none; the body carries the stack iff NODE_ENV is exactly 'development'
\* (not in production, and not when NODE_ENV is unset or has another value).
C9_StackOnlyInDevelopment ==
    conn.busy =>
        /\ (InSeq("router", conn.ran) /\ conn.req.outcome.kind = "throw") =>
              HandlerErrorCaught(conn)
        /\ (InSeq("sendFile", conn.ran) /\ ~env.build) => HandlerErrorCaught(conn)
        /\ HandlerErrorCaught(conn) =>
              /\ conn.writes = <<"errorMw">>
              /\ conn.res.status = IF conn.caught.statusCode = 0 THEN 500
                                   ELSE conn.caught.statusCode
              /\ conn.res.ctype = "json"
              /\ conn.res.body.message = conn.caught.message
              /\ ("stack" \in conn.res.body.keys) <=> (env.NODE_ENV = "development")

C9_Witness ==
    /\ conn.busy
    /\ conn.caught.source = "router"
    /\ conn.res.status = 401
    /\ env.NODE_ENV = "development"
    /\ "stack" \in conn.res.body.keys

----------------------------------------------------------------------------
(* C10: the health endpoint *)

\* C10: whatever the state of the database connection, a request the health
\* handler answers gets status 200, one of the four labels as its database field
\* and a non-negative uptime.
C10_HealthLabels ==
    (conn.busy /\ InSeq("health", conn.ran)) =>
        /\ conn.res.status = 200
        /\ conn.writes = <<"health">>
        /\ conn.res.body.database \in
              {"Disconnected", "Connected", "Connecting", "Disconnecting"}
        /\ conn.res.body.uptime >= 0

C10_Witness ==
    /\ conn.busy
    /\ InSeq("health", conn.ran)
    /\ readyState = 3
    /\ conn.res.body.database = "Disconnecting"
    /\ conn.res.body.uptime > 0

=============================================================================
